---- MODULE Spec2Model ----
(***************************************************************************)
(* A model of the iOS adapter collection (src/adapters/iosAdapter.ts) and  *)
(* of the iOS 13 protocol adapter (protocols/ios/ios13.ts).                *)
(*                                                                         *)
(* JavaScript strings are sequences of one-character strings, so that      *)
(* split and parseInt are computed character by character.  The value      *)
(* undefined is the one-element sequence <<"undefined">>, which no string  *)
(* of single characters equals.                                            *)
(***************************************************************************)
EXTENDS Integers, Sequences, FiniteSets, TLC

\* ---------------------------------------------------------------- bounds
MaxVersionLen == 4
MaxProps == 2
MaxDevices == 2
NumCalls == 2

VARIABLES
    deviceList,             \* what the discovery collaborator answers
    adapters,               \* this._adapters: pairs <<adapter id, port>>
    constructed,            \* new Adapter(...) executed, per adapter id
    started,                \* adapter.start() executed, per adapter id
    listeners,              \* adapter.on('socketClosed', ...) executed, per adapter id
    simulatorVersionMap,    \* this._simulatorVersionMap: pairs <<udid, version>>
    execCount,              \* exec('xcrun simctl list --json') executed
    calls,                  \* the getTargets calls: where each one is suspended
    targets,                \* the routing table: pairs <<url, Target>>
    protocolMap,            \* this._protocolMap: pairs <<target, protocol>>
    protocolsConstructed,   \* new IOSxProtocol(target) executed, per target
    lastConnect,            \* the outcome of the latest connectTo
    targetBased,            \* target.targetBased, per target
    connectionState,        \* the connection state of each Target
    lastReconnect,          \* the latest connectTo found the connection closed
    lastEmit,               \* the latest 'socketClosed' of an Adapter, as forwarded
    rVersion, rDeviceId, rProtocol,     \* one call of getProtocolFor
    hMsg, hOut                          \* one frame through onRuntimeGetProperties

collectionVars ==
    <<deviceList, adapters, constructed, started, listeners, simulatorVersionMap,
      execCount, calls, targets, protocolMap, protocolsConstructed, lastConnect,
      targetBased, connectionState, lastReconnect, lastEmit>>

attachVars == <<targetBased, connectionState, lastReconnect>>

eventVars == <<lastEmit>>

resolverVars == <<rVersion, rDeviceId, rProtocol>>

hookVars == <<hMsg, hOut>>

vars == <<collectionVars, resolverVars, hookVars>>

\* ------------------------------------------------------ JavaScript values
Undefined == <<"undefined">>

SIMULATOR == <<"S","I","M","U","L","A","T","O","R">>

IPHONE == <<"i","1">>

DeviceIds == {SIMULATOR, IPHONE}

DigitChars == <<"0", "1", "2", "3", "4", "5", "6", "7", "8", "9">>

IsDigit(c) == \E i \in 1..Len(DigitChars) : DigitChars[i] = c

DigitValue(c) == (CHOOSE i \in 1..Len(DigitChars) : DigitChars[i] = c) - 1

\* String.prototype.split with a one-character separator: the pieces between
\* the separators, so the empty string splits into one empty piece.
RECURSIVE SplitFrom(_, _, _, _)
SplitFrom(s, sep, i, cur) ==
    IF i > Len(s) THEN <<cur>>
    ELSE IF s[i] = sep THEN <<cur>> \o SplitFrom(s, sep, i + 1, <<>>)
    ELSE SplitFrom(s, sep, i + 1, Append(cur, s[i]))

Split(s, sep) == SplitFrom(s, sep, 1, <<>>)

\* The value of the longest prefix of digits of s from position i on.
RECURSIVE DigitsFrom(_, _, _)
DigitsFrom(s, i, acc) ==
    IF i > Len(s) \/ ~IsDigit(s[i]) THEN acc
    ELSE DigitsFrom(s, i + 1, acc * 10 + DigitValue(s[i]))

NaN == [nan |-> TRUE, n |-> 0]

Num(k) == [nan |-> FALSE, n |-> k]

\* parseInt(s, 10): an optional sign, then the longest prefix of digits; NaN
\* when there is no digit there.  parseInt(undefined) parses the text
\* "undefined" and is NaN.
parseInt(s) ==
    IF s = Undefined \/ s = <<>> THEN NaN
    ELSE LET neg == s[1] = "-"
             start == IF s[1] = "-" \/ s[1] = "+" THEN 2 ELSE 1
         IN IF start > Len(s) \/ ~IsDigit(s[start]) THEN NaN
            ELSE Num((IF neg THEN -1 ELSE 1) * DigitsFrom(s, start, 0))

\* parts[i] of a JavaScript array, 0-based: undefined past the end.
At(parts, i) == IF i + 1 <= Len(parts) THEN parts[i + 1] ELSE Undefined

\* Comparisons with NaN are all false.
Le(a, k) == ~a.nan /\ a.n <= k

Gt(a, k) == ~a.nan /\ a.n > k

Ge(a, k) == ~a.nan /\ a.n >= k

StrictEq(a, k) == ~a.nan /\ a.n = k

\* ------------------------------------------------------- getProtocolFor
Protocols == {"IOS8Protocol", "IOS9Protocol", "IOS12Protocol", "IOS13Protocol"}

getProtocolForOffByOne(version, deviceId) ==
    IF version = Undefined THEN "TypeError"
    ELSE LET parts == Split(version, ".")
             major == parseInt(At(parts, 0))
             minor == parseInt(At(parts, 1))
         IN IF Len(parts) > 0 /\ Le(major, 7) THEN "IOS8Protocol"
            ELSE IF Len(parts) > 0 /\ (Gt(major, 13) \/ (Ge(major, 13) /\ Gt(minor, 4)))
                 THEN "IOS13Protocol"
            ELSE IF Len(parts) > 0 /\ deviceId # SIMULATOR
                    /\ StrictEq(major, 12) /\ StrictEq(minor, 2)
                 THEN "IOS12Protocol"
            ELSE "IOS9Protocol"

\* getProtocolFor without the device test of line 193.
getProtocolForAnyDevice(version, deviceId) ==
    IF version = Undefined THEN "TypeError"
    ELSE LET parts == Split(version, ".")
             major == parseInt(At(parts, 0))
             minor == parseInt(At(parts, 1))
         IN IF Len(parts) > 0 /\ Le(major, 8) THEN "IOS8Protocol"
            ELSE IF Len(parts) > 0 /\ (Gt(major, 13) \/ (Ge(major, 13) /\ Ge(minor, 4)))
                 THEN "IOS13Protocol"
            ELSE IF Len(parts) > 0 /\ StrictEq(major, 12) /\ StrictEq(minor, 2)
                 THEN "IOS12Protocol"
            ELSE "IOS9Protocol"

\* getProtocolFor reading a method of parts[1], which throws when there is
\* no MINOR.
getProtocolForStrictMinor(version, deviceId) ==
    IF version = Undefined \/ At(Split(version, "."), 1) = Undefined THEN "TypeError"
    ELSE LET parts == Split(version, ".")
             major == parseInt(At(parts, 0))
             minor == parseInt(At(parts, 1))
         IN IF Len(parts) > 0 /\ Le(major, 8) THEN "IOS8Protocol"
            ELSE IF Len(parts) > 0 /\ (Gt(major, 13) \/ (Ge(major, 13) /\ Ge(minor, 4)))
                 THEN "IOS13Protocol"
            ELSE IF Len(parts) > 0 /\ deviceId # SIMULATOR
                    /\ StrictEq(major, 12) /\ StrictEq(minor, 2)
                 THEN "IOS12Protocol"
            ELSE "IOS9Protocol"

\* The class of the protocol adapter constructed for a version string and the
\* target's device id; "TypeError" when version is undefined, where
\* version.split throws.
getProtocolFor(version, deviceId) ==
    IF version = Undefined THEN "TypeError"
    ELSE LET parts == Split(version, ".")
             major == parseInt(At(parts, 0))
             minor == parseInt(At(parts, 1))
         IN IF Len(parts) > 0 /\ Le(major, 8) THEN "IOS8Protocol"
            ELSE IF Len(parts) > 0 /\ (Gt(major, 13) \/ (Ge(major, 13) /\ Ge(minor, 4)))
                 THEN "IOS13Protocol"
            ELSE IF Len(parts) > 0 /\ deviceId # SIMULATOR
                    /\ StrictEq(major, 12) /\ StrictEq(minor, 2)
                 THEN "IOS12Protocol"
            ELSE "IOS9Protocol"

VersionChars == {"0", "1", "2", "3", "4", "8", "9", ".", "a"}

\* What may follow MAJOR.MINOR: nothing, or a PATCH.
PatchSuffixes == {<<>>, <<".", "1">>, <<".", "a">>}

\* Every string of at most MaxVersionLen characters, alone and followed by a
\* PATCH, and undefined (the version of a record whose simulator was not
\* found).
VersionInputs ==
    {v \o suffix : v \in UNION {[1..n -> VersionChars] : n \in 0..MaxVersionLen},
                   suffix \in PatchSuffixes}
    \cup {Undefined}

\* ------------------------------------------- IOS13Protocol (ios13.ts)
\* A property descriptor is an object with the two flags the hook reads, or
\* null.  A flag holds the JavaScript literal named by the string.
FlagValues == {"undefined", "true", "false"}

Truthy(v) == v \notin {"undefined", "false", "null"}

Descriptors ==
    [t : {"object"}, isOwn : FlagValues, nativeGetter : {"undefined", "true"}]

NullEntry == [t |-> "null", isOwn |-> "undefined", nativeGetter |-> "undefined"]

Entries == Descriptors \cup {NullEntry}

PropertyLists == UNION {[1..n -> Entries] : n \in 0..MaxProps}

\* A value that is not an object with fields: undefined, null, a number or
\* an array of entries.
Leaf(t, items) == [t |-> t, items |-> items]

UndefinedLeaf == Leaf("undefined", <<>>)

\* msg.result: a leaf, or an object with a properties and a result field
\* (an absent field reads as undefined).
Value(t, items, properties, result) ==
    [t |-> t, items |-> items, properties |-> properties, result |-> result]

Plain(t, items) == Value(t, items, UndefinedLeaf, UndefinedLeaf)

Object(properties, result) == Value("object", <<>>, properties, result)

BareArray(list) == Plain("array", list)

WithProperties(list) == Object(Leaf("array", list), UndefinedLeaf)

Results ==
    {Plain("undefined", <<>>), Plain("null", <<>>), Plain("number", <<>>),
     Object(UndefinedLeaf, UndefinedLeaf), Object(Leaf("null", <<>>), UndefinedLeaf),
     Object(Leaf("number", <<>>), UndefinedLeaf)}
    \cup {BareArray(l) : l \in PropertyLists}
    \cup {WithProperties(l) : l \in PropertyLists}

MsgIds == {1, 2}

\* A frame envelope; the envelope {} has neither an id nor a result.
Envelope(id, result) == [hasId |-> TRUE, id |-> id, result |-> result]

EmptyEnvelope == [hasId |-> FALSE, id |-> 0, result |-> Plain("undefined", <<>>)]

Envelopes == {Envelope(id, r) : id \in MsgIds, r \in Results}

\* let { properties } = msg.result: undefined and null cannot be
\* destructured; a number or an array has no such field.
CanDestructure(result) == result.t \notin {"undefined", "null"}

PropertiesOf(result) ==
    IF result.t = "object" THEN result.properties ELSE UndefinedLeaf

LeafTruthy(leaf) == leaf.t \notin {"undefined", "null"}

AsLeaf(result) == Leaf(result.t, result.items)

\* The loop without line 23: a kept entry keeps the isOwn it came with.
RECURSIVE FilterFromAsIs(_, _, _)
FilterFromAsIs(items, i, kept) ==
    IF i > Len(items) THEN [threw |-> FALSE, kept |-> kept]
    ELSE IF items[i].t = "null" THEN [threw |-> TRUE, kept |-> kept]
    ELSE IF Truthy(items[i].isOwn) \/ Truthy(items[i].nativeGetter)
         THEN FilterFromAsIs(items, i + 1, Append(kept, items[i]))
    ELSE FilterFromAsIs(items, i + 1, kept)

\* The loop of lines 21-26 from index i on: [threw, kept].  Reading a field
\* of a null entry throws; only an array has a length the loop can reach.
RECURSIVE FilterFrom(_, _, _)
FilterFrom(items, i, kept) ==
    IF i > Len(items) THEN [threw |-> FALSE, kept |-> kept]
    ELSE IF items[i].t = "null" THEN [threw |-> TRUE, kept |-> kept]
    ELSE IF Truthy(items[i].isOwn) \/ Truthy(items[i].nativeGetter)
         THEN FilterFrom(items, i + 1,
                         Append(kept, [items[i] EXCEPT !.isOwn = "true"]))
    ELSE FilterFrom(items, i + 1, kept)

\* The try block without lines 17-19: reading the length of undefined throws.
TryBlockOneShape(msg) ==
    IF ~CanDestructure(msg.result) THEN [threw |-> TRUE, value |-> EmptyEnvelope]
    ELSE LET properties == PropertiesOf(msg.result)
             loop == FilterFrom(IF properties.t = "array" THEN properties.items ELSE <<>>,
                                1, <<>>)
         IN IF ~LeafTruthy(properties) \/ loop.threw
            THEN [threw |-> TRUE, value |-> EmptyEnvelope]
            ELSE [threw |-> FALSE,
                  value |-> [msg EXCEPT !.result =
                                Object(UndefinedLeaf, Leaf("array", loop.kept))]]

\* The try block answering in an envelope of its own, not in msg.
TryBlockOwnEnvelope(msg) ==
    IF ~CanDestructure(msg.result) THEN [threw |-> TRUE, value |-> EmptyEnvelope]
    ELSE LET given == PropertiesOf(msg.result)
             properties == IF ~LeafTruthy(given) THEN AsLeaf(msg.result) ELSE given
             loop == FilterFrom(IF properties.t = "array" THEN properties.items ELSE <<>>,
                                1, <<>>)
         IN IF loop.threw THEN [threw |-> TRUE, value |-> EmptyEnvelope]
            ELSE [threw |-> FALSE,
                  value |-> [EmptyEnvelope EXCEPT !.result =
                                Object(UndefinedLeaf, Leaf("array", loop.kept))]]

\* The try block, lines 12-30: [threw, value].
TryBlock(msg) ==
    IF ~CanDestructure(msg.result) THEN [threw |-> TRUE, value |-> EmptyEnvelope]
    ELSE LET given == PropertiesOf(msg.result)
             properties == IF ~LeafTruthy(given) THEN AsLeaf(msg.result) ELSE given
             loop == FilterFrom(IF properties.t = "array" THEN properties.items ELSE <<>>,
                                1, <<>>)
         IN IF loop.threw THEN [threw |-> TRUE, value |-> EmptyEnvelope]
            ELSE [threw |-> FALSE,
                  value |-> [msg EXCEPT !.result =
                                Object(UndefinedLeaf, Leaf("array", loop.kept))]]

Resolved(envelope) == [settled |-> "resolved", value |-> envelope]

Rejected == [settled |-> "rejected", value |-> EmptyEnvelope]

Pending == [settled |-> "pending", value |-> EmptyEnvelope]

\* The hook without its catch: a throw rejects.
onRuntimeGetPropertiesUncaught(msg) ==
    LET try == TryBlock(msg)
    IN IF try.threw THEN Rejected ELSE Resolved(try.value)

\* onRuntimeGetProperties, lines 11-37: the promise the hook returns.
onRuntimeGetProperties(msg) ==
    LET try == TryBlock(msg)
    IN IF try.threw THEN Resolved(EmptyEnvelope) ELSE Resolved(try.value)

\* new IOS8Protocol(target), new IOS9Protocol(target) and
\* new IOS12Protocol(target): target.targetBased after the constructor of an
\* older generation, which needs the attach step.
NewOlderProtocol(flag) == "true"

\* The constructor without line 8: the flag is as super(target) left it.
NewIOS13ProtocolNoWrite(flag) == NewOlderProtocol(flag)

\* new IOS13Protocol(target), lines 6-9: target.targetBased after
\* super(target) and the assignment of line 8.
NewIOS13Protocol(flag) == "false"

\* --------------------------------------------- IOSAdapter (iosAdapter.ts)
\* A JavaScript Map as a set of <<key, value>> pairs, one pair per key.
Has(map, key) == \E e \in map : e[1] = key

Get(map, key) == (CHOOSE e \in map : e[1] = key)[2]

Set(map, key, value) == {e \in map : e[1] # key} \cup {<<key, value>>}

Keys(map) == {e[1] : e \in map}

CollectionId == <<"i", "O", "S">>

\* `${this._id}_${d.deviceId}`
AdapterId(deviceId) == CollectionId \o <<"_">> \o deviceId

AdapterIds == {AdapterId(d) : d \in DeviceIds}

SimUdid == <<"u", "1">>

DefaultVersion == <<"9", ".", "3", ".", "0">>

\* The raw records of the discovery collaborator: a device id, a url with a
\* port or without one, and an OS version the proxy may not report (it
\* reports none for the simulator); and a malformed record, with no url.
DeviceUrls == {<<"h", ":", "1">>, <<"h">>}

OSVersions == {Undefined, <<"1", "2", ".", "2">>}

RawDevice(id, url, osVersion) ==
    [deviceId |-> id, url |-> url, deviceOSVersion |-> osVersion,
     version |-> Undefined]

RawDevices ==
    {RawDevice(SIMULATOR, u, Undefined) : u \in DeviceUrls}
    \cup {RawDevice(IPHONE, u, v) : u \in DeviceUrls, v \in OSVersions}
    \cup {RawDevice(IPHONE, Undefined, Undefined)}

DeviceLists == UNION {[1..n -> RawDevices] : n \in 0..MaxDevices}

\* What `xcrun simctl list --json` can answer: the command or the parse of
\* its output fails, or devices maps runtime identifiers to device lists and
\* runtimes lists the runtimes with their versions.
IOS134 == "com.apple.CoreSimulator.SimRuntime.iOS-13-4"

TVOS13 == "com.apple.CoreSimulator.SimRuntime.tvOS-13-0"

\* type.includes('SimRuntime.iOS')
IsIOSRuntime(type) == type \in {IOS134}

Simctl(ok, devices, runtimes) ==
    [ok |-> ok, devices |-> devices, runtimes |-> runtimes]

RuntimeList(type, isArray, udids) ==
    [type |-> type, isArray |-> isArray, udids |-> udids]

Runtime134 == [identifier |-> IOS134, version |-> <<"1", "3", ".", "4">>]

SimctlOutputs ==
    {Simctl(FALSE, <<>>, <<>>),
     Simctl(TRUE, <<RuntimeList(TVOS13, TRUE, <<SimUdid>>),
                    RuntimeList(IOS134, TRUE, <<<<"u", "2">>, SimUdid>>)>>, <<Runtime134>>),
     Simctl(TRUE, <<RuntimeList(IOS134, TRUE, <<<<"u", "2">>>>)>>, <<Runtime134>>),
     Simctl(TRUE, <<RuntimeList(TVOS13, TRUE, <<SimUdid>>)>>, <<Runtime134>>),
     Simctl(TRUE, <<RuntimeList(IOS134, FALSE, <<>>)>>, <<Runtime134>>),
     Simctl(TRUE, <<RuntimeList(IOS134, TRUE, <<SimUdid>>)>>, <<>>)}

\* The loop of lines 211-231 from entry k of devices on: [threw, iosVersion].
\* runtimes.find answers undefined when no runtime has the identifier, and
\* reading its version throws.
RECURSIVE ScanDevices(_, _, _)
ScanDevices(out, udid, k) ==
    IF k > Len(out.devices) THEN [threw |-> FALSE, iosVersion |-> Undefined]
    ELSE LET entry == out.devices[k]
             found == \E j \in 1..Len(entry.udids) : entry.udids[j] = udid
             runtime == {r \in 1..Len(out.runtimes) :
                            out.runtimes[r].identifier = entry.type}
         IN IF ~IsIOSRuntime(entry.type) \/ ~entry.isArray \/ ~found
            THEN ScanDevices(out, udid, k + 1)
            ELSE IF runtime = {} THEN [threw |-> TRUE, iosVersion |-> Undefined]
            ELSE [threw |-> FALSE,
                  iosVersion |-> out.runtimes[CHOOSE r \in runtime :
                                     \A q \in runtime : r <= q].version]

\* Lines 207-234 of getSimulatorVersion once exec has settled.
SimulatorVersionOf(out, udid) ==
    IF ~out.ok THEN DefaultVersion
    ELSE LET scan == ScanDevices(out, udid, 1)
         IN IF scan.threw THEN DefaultVersion ELSE scan.iosVersion

HasAdapterNever(registry, adapterId) == FALSE

\* this._adapters.has(adapterId), line 59
HasAdapter(registry, adapterId) == Has(registry, adapterId)

\* The registry and what has been executed on the Adapters.
Registry(a, c, s, l) ==
    [adapters |-> a, constructed |-> c, started |-> s, listeners |-> l]

\* Register looking the adapter up under the device id, not the adapter id.
RegisterWrongKey(d, reg) ==
    LET adapterId == AdapterId(d.deviceId)
    IN IF HasAdapter(reg.adapters, d.deviceId) THEN [threw |-> FALSE, reg |-> reg]
       ELSE IF d.url = Undefined THEN [threw |-> TRUE, reg |-> reg]
       ELSE LET parts == Split(d.url, ":")
            IN IF Len(parts) > 1
               THEN [threw |-> FALSE,
                     reg |-> Registry(
                        Set(reg.adapters, adapterId, parseInt(At(parts, 1))),
                        [reg.constructed EXCEPT ![adapterId] = @ + 1],
                        [reg.started EXCEPT ![adapterId] = @ + 1],
                        [reg.listeners EXCEPT ![adapterId] = @ + 1])]
               ELSE [threw |-> FALSE, reg |-> reg]

\* Register adding the listener of lines 68-70 outside the check of line
\* 59, on every pass over the record.
RegisterListensAgain(d, reg) ==
    LET adapterId == AdapterId(d.deviceId)
    IN IF HasAdapter(reg.adapters, adapterId)
       THEN [threw |-> FALSE,
             reg |-> [reg EXCEPT !.listeners[adapterId] = @ + 1]]
       ELSE IF d.url = Undefined THEN [threw |-> TRUE, reg |-> reg]
       ELSE LET parts == Split(d.url, ":")
            IN IF Len(parts) > 1
               THEN [threw |-> FALSE,
                     reg |-> Registry(
                        Set(reg.adapters, adapterId, parseInt(At(parts, 1))),
                        [reg.constructed EXCEPT ![adapterId] = @ + 1],
                        [reg.started EXCEPT ![adapterId] = @ + 1],
                        [reg.listeners EXCEPT ![adapterId] = @ + 1])]
               ELSE [threw |-> FALSE, reg |-> reg]

\* Lines 58-73 for a record d: [threw, reg].  Splitting a missing url throws.
Register(d, reg) ==
    LET adapterId == AdapterId(d.deviceId)
    IN IF HasAdapter(reg.adapters, adapterId) THEN [threw |-> FALSE, reg |-> reg]
       ELSE IF d.url = Undefined THEN [threw |-> TRUE, reg |-> reg]
       ELSE LET parts == Split(d.url, ":")
            IN IF Len(parts) > 1
               THEN [threw |-> FALSE,
                     reg |-> Registry(
                        Set(reg.adapters, adapterId, parseInt(At(parts, 1))),
                        [reg.constructed EXCEPT ![adapterId] = @ + 1],
                        [reg.started EXCEPT ![adapterId] = @ + 1],
                        [reg.listeners EXCEPT ![adapterId] = @ + 1])]
               ELSE [threw |-> FALSE, reg |-> reg]

\* Lines 51-56: the version of a record that is not the simulator's.
DeviceVersion(d) ==
    IF d.deviceOSVersion # Undefined /\ d.deviceOSVersion # <<>>
    THEN d.deviceOSVersion ELSE DefaultVersion

\* Where the loop of lines 47-75 stands: at "await" it is suspended on
\* getSimulatorVersion for record i, at "return" it has ended (by reaching
\* the end of the list, or by a throw at record i that line 76 catches; i is
\* 0 when the loop was never entered).
LoopState(pc, i, reg, devices) ==
    [pc |-> pc, i |-> i, reg |-> reg, devices |-> devices]

\* Lines 58-74 for record i with its version set, then on to record i + 1.
RECURSIVE LoopFrom(_, _, _, _)

\* Finish with a catch that forgets the records collected before the throw.
FinishDropsCollected(raw, i, version, reg, devices) ==
    LET d == [raw[i] EXCEPT !.version = version]
        r == Register(d, reg)
    IN IF r.threw THEN LoopState("return", i, r.reg, <<>>)
       ELSE LoopFrom(raw, i + 1, r.reg, Append(devices, d))

Finish(raw, i, version, reg, devices) ==
    LET d == [raw[i] EXCEPT !.version = version]
        r == Register(d, reg)
    IN IF r.threw THEN LoopState("return", i, r.reg, devices)
       ELSE LoopFrom(raw, i + 1, r.reg, Append(devices, d))

\* The loop from record i on, up to its next suspension.
LoopFrom(raw, i, reg, devices) ==
    IF i > Len(raw) THEN LoopState("return", i, reg, devices)
    ELSE IF raw[i].deviceId = SIMULATOR THEN LoopState("await", i, reg, devices)
    ELSE Finish(raw, i, DeviceVersion(raw[i]), reg, devices)

\* ------------------------------ AdapterCollection (adapterCollection.ts)
\* A Target of the routing table: the record it was discovered from.
Target(d) == [url |-> d.deviceId, deviceId |-> d.deviceId, version |-> d.version]

NoTarget == [url |-> Undefined, deviceId |-> Undefined, version |-> Undefined]

\* super.getTargets(devices): a Target is created for every record whose
\* url the routing table does not know yet; a known one is left as it is.
RECURSIVE SuperGetTargets(_, _, _)
SuperGetTargets(table, devices, k) ==
    IF k > Len(devices) THEN table
    ELSE IF Has(table, devices[k].deviceId)
         THEN SuperGetTargets(table, devices, k + 1)
    ELSE SuperGetTargets(Set(table, devices[k].deviceId, Target(devices[k])),
                         devices, k + 1)

\* super.connectTo(url, wsFrom): the Target the routing table has for the
\* url, or none.
SuperConnectTo(table, url) == IF Has(table, url) THEN Get(table, url) ELSE NoTarget

ConnectUrls == DeviceIds \cup {<<"x">>}

\* ------------------------------------------------------------ getTargets
Call(pc, i, devices, val) == [pc |-> pc, i |-> i, devices |-> devices, val |-> val]

IdleCall == Call("idle", 1, <<>>, Undefined)

CurrentRegistry == Registry(adapters, constructed, started, listeners)

\* getTargets of call p goes on from where the loop stands: it returns
\* super.getTargets(devices), line 80, or it enters getSimulatorVersion,
\* lines 203-209, which answers from the cache or starts the command; either
\* way the call is suspended until the answer comes.
Continue(p, loop) ==
    /\ adapters' = loop.reg.adapters
    /\ constructed' = loop.reg.constructed
    /\ started' = loop.reg.started
    /\ listeners' = loop.reg.listeners
    /\ IF loop.pc = "return"
       THEN /\ targets' = SuperGetTargets(targets, loop.devices, 1)
            /\ calls' = [calls EXCEPT ![p] = Call("done", loop.i, loop.devices, Undefined)]
            /\ execCount' = execCount
       ELSE IF Has(simulatorVersionMap, SimUdid)
       THEN /\ calls' = [calls EXCEPT ![p] =
                            Call("resume", loop.i, loop.devices,
                                 Get(simulatorVersionMap, SimUdid))]
            /\ UNCHANGED <<targets, execCount>>
       ELSE /\ calls' = [calls EXCEPT ![p] = Call("exec", loop.i, loop.devices, Undefined)]
            /\ execCount' = execCount + 1
            /\ UNCHANGED targets

\* Line 44: getTargets is called and suspends on the discovery request.  The
\* calls are numbered in the order in which they are made.
CallGetTargets(p) ==
    /\ calls[p].pc = "idle"
    /\ \A q \in 1..(p - 1) : calls[q].pc # "idle"
    /\ calls' = [calls EXCEPT ![p] = Call("got", 1, <<>>, Undefined)]
    /\ UNCHANGED <<deviceList, adapters, constructed, started, listeners,
                   simulatorVersionMap, execCount, targets, protocolMap,
                   protocolsConstructed, lastConnect, attachVars, eventVars,
                   resolverVars, hookVars>>

\* Lines 44-47: the request settles.  When it fails, or its body does not
\* parse, line 76 catches and the call returns no device.
GotSettles(p) ==
    /\ calls[p].pc = "got"
    /\ \E ok \in BOOLEAN :
          IF ok THEN Continue(p, LoopFrom(deviceList, 1, CurrentRegistry, <<>>))
          ELSE Continue(p, LoopState("return", 0, CurrentRegistry, <<>>))
    /\ UNCHANGED <<deviceList, simulatorVersionMap, protocolMap,
                   protocolsConstructed, lastConnect, attachVars, eventVars,
                   resolverVars, hookVars>>

\* Lines 209-238: the command settles, the version is cached and handed to
\* the suspended getTargets.
ExecSettles(p) ==
    /\ calls[p].pc = "exec"
    /\ \E out \in SimctlOutputs :
          LET iosVersion == SimulatorVersionOf(out, SimUdid)
          IN /\ simulatorVersionMap' = Set(simulatorVersionMap, SimUdid, iosVersion)
             /\ calls' = [calls EXCEPT ![p] =
                             Call("resume", calls[p].i, calls[p].devices, iosVersion)]
    /\ UNCHANGED <<deviceList, adapters, constructed, started, listeners,
                   execCount, targets, protocolMap, protocolsConstructed,
                   lastConnect, attachVars, eventVars, resolverVars, hookVars>>

\* Line 50 on: getTargets resumes with the simulator's version.
Resume(p) ==
    /\ calls[p].pc = "resume"
    /\ Continue(p, Finish(deviceList, calls[p].i, calls[p].val, CurrentRegistry,
                          calls[p].devices))
    /\ UNCHANGED <<deviceList, simulatorVersionMap, protocolMap,
                   protocolsConstructed, lastConnect, attachVars, eventVars,
                   resolverVars, hookVars>>

\* ------------------------------------------------------------- connectTo
Connection(url, outcome, pmap, count) ==
    [url |-> url, outcome |-> outcome, protocolMap |-> pmap, count |-> count]

\* connectTo without the check of lines 86-88: an unknown url gets a binding.
connectToUnchecked(url, table, pmap, count) ==
    LET target == SuperConnectTo(table, url)
    IN IF Has(pmap, target) THEN Connection(url, "returned", pmap, count)
       ELSE IF target = NoTarget
            THEN Connection(url, "returned", Set(pmap, target, "IOS9Protocol"), count)
       ELSE LET protocol == getProtocolFor(target.version, target.deviceId)
            IN IF protocol = "TypeError" THEN Connection(url, "TypeError", pmap, count)
               ELSE Connection(url, "returned", Set(pmap, target, protocol),
                               [count EXCEPT ![target.url] = @ + 1])

\* connectTo without the check of line 90: every connection constructs.
connectToUncached(url, table, pmap, count) ==
    LET target == SuperConnectTo(table, url)
    IN IF target = NoTarget THEN Connection(url, "Target not found", pmap, count)
       ELSE LET protocol == getProtocolFor(target.version, target.deviceId)
            IN IF protocol = "TypeError" THEN Connection(url, "TypeError", pmap, count)
               ELSE Connection(url, "returned", Set(pmap, target, protocol),
                               [count EXCEPT ![target.url] = @ + 1])

\* Lines 83-96: the outcome, this._protocolMap and the protocols constructed
\* after connectTo(url).
connectTo(url, table, pmap, count) ==
    LET target == SuperConnectTo(table, url)
    IN IF target = NoTarget THEN Connection(url, "Target not found", pmap, count)
       ELSE IF Has(pmap, target) THEN Connection(url, "returned", pmap, count)
       ELSE LET protocol == getProtocolFor(target.version, target.deviceId)
            IN IF protocol = "TypeError" THEN Connection(url, "TypeError", pmap, count)
               ELSE Connection(url, "returned", Set(pmap, target, protocol),
                               [count EXCEPT ![target.url] = @ + 1])

\* target.targetBased after lines 92-93 have constructed the protocol.
NewProtocol(protocol, flag) ==
    IF protocol = "IOS13Protocol" THEN NewIOS13Protocol(flag)
    ELSE NewOlderProtocol(flag)

\* connectTo(url, wsFrom).  super.connectTo attaches the client to the Target
\* it finds, whose connection is then open; a protocol constructed at lines
\* 92-93 sets the Target's flag.
ConnectTo(url) ==
    LET c == connectTo(url, targets, protocolMap, protocolsConstructed)
        target == SuperConnectTo(targets, url)
        found == url \in DeviceIds /\ target # NoTarget
    IN /\ protocolMap' = c.protocolMap
       /\ protocolsConstructed' = c.count
       /\ lastConnect' = [url |-> c.url, outcome |-> c.outcome]
       /\ targetBased' =
             IF found /\ c.count[url] > protocolsConstructed[url]
             THEN [targetBased EXCEPT ![url] = NewProtocol(Get(c.protocolMap, target), @)]
             ELSE targetBased
       /\ connectionState' =
             IF found THEN [connectionState EXCEPT ![url] = "connected"]
             ELSE connectionState
       /\ lastReconnect' = (found /\ connectionState[url] = "closed")
       /\ UNCHANGED <<deviceList, adapters, constructed, started, listeners,
                      simulatorVersionMap, execCount, calls, targets,
                      eventVars, resolverVars, hookVars>>

\* The connection of the Target of url closes.
CloseConnection(url) ==
    /\ connectionState[url] = "connected"
    /\ connectionState' = [connectionState EXCEPT ![url] = "closed"]
    /\ UNCHANGED <<deviceList, adapters, constructed, started, listeners,
                   simulatorVersionMap, execCount, calls, targets, protocolMap,
                   protocolsConstructed, lastConnect, targetBased, lastReconnect,
                   eventVars, resolverVars, hookVars>>

\* The frames the hook of a bound v13 protocol is given.
AttachFrames ==
    {Envelope(1, Plain("null", <<>>)), Envelope(1, BareArray(<<>>)),
     Envelope(2, WithProperties(<<>>))}

\* A frame goes through onRuntimeGetProperties of the IOS13Protocol bound to
\* the Target of url.
HookOnTarget(url) ==
    /\ \E e \in protocolMap : e[1].url = url /\ e[2] = "IOS13Protocol"
    /\ \E msg \in AttachFrames :
          /\ hMsg' = msg
          /\ hOut' = onRuntimeGetProperties(msg)
    /\ UNCHANGED <<collectionVars, resolverVars>>

\* ----------------------------------------------------------- socketClosed
\* What the collection emits when an Adapter with n listeners of lines 68-70
\* emits 'socketClosed' with id: each listener emits once, with the id it
\* was given.
Forwarded(n, id) == [upstream |-> id, id |-> id, times |-> n]

NoEmit == Forwarded(0, Undefined)

ClosedIds == AdapterIds \cup DeviceIds

\* The Adapter registered as a emits 'socketClosed' with id.
UpstreamCloses(a, id) ==
    /\ Has(adapters, a)
    /\ lastEmit' = Forwarded(listeners[a], id)
    /\ UNCHANGED <<deviceList, adapters, constructed, started, listeners,
                   simulatorVersionMap, execCount, calls, targets, protocolMap,
                   protocolsConstructed, lastConnect, attachVars, resolverVars,
                   hookVars>>

\* getTargets calls made one after the other.
CallInTurn(p) ==
    /\ \A q \in 1..(p - 1) : calls[q].pc = "done"
    /\ CallGetTargets(p)

\* ------------------------------------------------------- specifications
ResolverIdle == rVersion = <<>> /\ rDeviceId = IPHONE /\ rProtocol = "none"

HookIdle == hMsg = EmptyEnvelope /\ hOut = Pending

CollectionIdle ==
    /\ deviceList = <<>>
    /\ adapters = {}
    /\ constructed = [a \in AdapterIds |-> 0]
    /\ started = [a \in AdapterIds |-> 0]
    /\ listeners = [a \in AdapterIds |-> 0]
    /\ simulatorVersionMap = {}
    /\ execCount = 0
    /\ calls = [p \in 1..NumCalls |-> IdleCall]
    /\ targets = {}
    /\ protocolMap = {}
    /\ protocolsConstructed = [d \in DeviceIds |-> 0]
    /\ lastConnect = [url |-> Undefined, outcome |-> "none"]
    /\ targetBased = [d \in DeviceIds |-> "unset"]
    /\ connectionState = [d \in DeviceIds |-> "disconnected"]
    /\ lastReconnect = FALSE
    /\ lastEmit = NoEmit

\* The collection after its constructor, lines 28-38, with the device list
\* the discovery collaborator will answer.
Init ==
    /\ deviceList \in DeviceLists
    /\ adapters = {}
    /\ constructed = [a \in AdapterIds |-> 0]
    /\ started = [a \in AdapterIds |-> 0]
    /\ listeners = [a \in AdapterIds |-> 0]
    /\ simulatorVersionMap = {}
    /\ execCount = 0
    /\ calls = [p \in 1..NumCalls |-> IdleCall]
    /\ targets = {}
    /\ protocolMap = {}
    /\ protocolsConstructed = [d \in DeviceIds |-> 0]
    /\ lastConnect = [url |-> Undefined, outcome |-> "none"]
    /\ targetBased = [d \in DeviceIds |-> "unset"]
    /\ connectionState = [d \in DeviceIds |-> "disconnected"]
    /\ lastReconnect = FALSE
    /\ lastEmit = NoEmit
    /\ ResolverIdle
    /\ HookIdle

\* Any number of getTargets calls in flight at once.
NextDiscovery ==
    \/ \E p \in 1..NumCalls : CallGetTargets(p)
    \/ \E p \in 1..NumCalls : GotSettles(p)
    \/ \E p \in 1..NumCalls : ExecSettles(p)
    \/ \E p \in 1..NumCalls : Resume(p)

SpecDiscovery == Init /\ [][NextDiscovery]_vars

\* Clients connecting while one getTargets call discovers the devices.
NextConnect ==
    \/ CallGetTargets(1)
    \/ GotSettles(1)
    \/ ExecSettles(1)
    \/ Resume(1)
    \/ \E url \in ConnectUrls : ConnectTo(url)
    \/ \E url \in DeviceIds : CloseConnection(url)

SpecConnect == Init /\ [][NextConnect]_vars

\* Frames through the hooks of the protocols the connections have bound.
NextAttach ==
    \/ NextConnect
    \/ \E url \in DeviceIds : HookOnTarget(url)

SpecAttach == Init /\ [][NextAttach]_vars

\* Adapters closing between getTargets calls made one after the other.
NextEvents ==
    \/ \E p \in 1..NumCalls : CallInTurn(p)
    \/ \E p \in 1..NumCalls : GotSettles(p)
    \/ \E p \in 1..NumCalls : ExecSettles(p)
    \/ \E p \in 1..NumCalls : Resume(p)
    \/ \E a \in AdapterIds, id \in ClosedIds : UpstreamCloses(a, id)

SpecEvents == Init /\ [][NextEvents]_vars

Next ==
    \/ NextDiscovery
    \/ NextAttach
    \/ \E a \in AdapterIds, id \in ClosedIds : UpstreamCloses(a, id)

Spec == Init /\ [][Next]_vars

\* One call of getProtocolFor on every input.
InitResolver ==
    /\ rVersion \in VersionInputs
    /\ rDeviceId \in DeviceIds
    /\ rProtocol = "none"
    /\ HookIdle
    /\ CollectionIdle

Resolve ==
    /\ rProtocol = "none"
    /\ rProtocol' = getProtocolFor(rVersion, rDeviceId)
    /\ UNCHANGED <<rVersion, rDeviceId, hookVars, collectionVars>>

NextResolver == Resolve

SpecResolver == InitResolver /\ [][NextResolver]_vars

\* Frames through the hook, one after the other.
InitHook ==
    /\ hMsg \in Envelopes
    /\ hOut = Pending
    /\ ResolverIdle
    /\ CollectionIdle

Deliver ==
    /\ hOut = Pending
    /\ hOut' = onRuntimeGetProperties(hMsg)
    /\ UNCHANGED <<hMsg, resolverVars, collectionVars>>

NextFrame ==
    /\ hOut # Pending
    /\ hMsg' \in Envelopes
    /\ hOut' = Pending
    /\ UNCHANGED <<resolverVars, collectionVars>>

NextHook == Deliver \/ NextFrame

SpecHook == InitHook /\ [][NextHook]_vars

\* ---------------------------------------------------------------- claims
\* A call that got the device list and has returned.
CompletedOverList(p) == calls[p].pc = "done" /\ calls[p].i >= 1

InFlight(p) == calls[p].pc \in {"exec", "resume"}

\* C1: with the discovery collaborator answering the same device list, the
\* registry only grows by adapter ids it did not hold, each Adapter is
\* constructed and started once, and once a call over the list has
\* completed no step of any call changes the registry or constructs or
\* starts an Adapter again.
C1_RediscoveryIsNoOp ==
    [][/\ adapters \subseteq adapters'
       /\ \A a \in AdapterIds :
             /\ constructed'[a] = (IF Has(adapters', a) THEN 1 ELSE 0)
             /\ started'[a] = constructed'[a]
       /\ (\E p \in 1..NumCalls : CompletedOverList(p))
             => /\ adapters' = adapters
                /\ constructed' = constructed
                /\ started' = started]_vars

\* Two calls have completed over a list with a device that got an Adapter.
C1_Witness ==
    /\ \E p, q \in 1..NumCalls :
          p # q /\ CompletedOverList(p) /\ CompletedOverList(q)
    /\ adapters # {}

\* C2: however the getTargets calls interleave, no adapter id has two
\* Adapters constructed or started.
C2_NoDuplicateAdapterUnderInterleaving ==
    \A a \in AdapterIds : constructed[a] <= 1 /\ started[a] <= 1

\* Two calls are in flight at once; one has registered the simulator's
\* Adapter and waits at a later record, the other is about to resume at a
\* simulator record and run the has-check.
C2_Witness ==
    \E p, q \in 1..NumCalls :
        /\ p # q /\ InFlight(p) /\ calls[q].pc = "resume"
        /\ calls[p].i > calls[q].i
        /\ constructed[AdapterId(SIMULATOR)] = 1

\* C5: the simulator-enumeration command is executed at most once for the
\* simulator id, also when getTargets calls overlap.
C5_AtMostOneExecPerSimulator == execCount <= 1

\* C3: connectTo with a url the routing table has no Target for fails with
\* the not-found error and changes neither the bindings, nor the protocols
\* constructed, nor the Targets, nor the registry of Adapters.
C3_UnknownUrlFailsAndChangesNothing ==
    [][\A url \in ConnectUrls :
          (SuperConnectTo(targets, url) = NoTarget /\ ConnectTo(url))
             => /\ lastConnect' = [url |-> url, outcome |-> "Target not found"]
                /\ UNCHANGED <<protocolMap, protocolsConstructed, targets,
                               adapters, constructed>>]_vars

\* A connection to an unknown url has failed while a known Target is bound.
C3_Witness ==
    /\ lastConnect.outcome = "Target not found"
    /\ ~Has(targets, lastConnect.url)
    /\ protocolMap # {}

\* C4: at most one protocol adapter is constructed per Target, and a
\* binding, once made, stays as it is: a later connectTo to the Target
\* constructs nothing and leaves its protocol.
C4_OneProtocolPerTarget ==
    [][/\ protocolMap \subseteq protocolMap'
       /\ \A d \in DeviceIds :
             protocolsConstructed'[d] =
                Cardinality({e \in protocolMap' : e[1].url = d})
       /\ \A d \in DeviceIds : protocolsConstructed'[d] <= 1]_vars

\* The latest connectTo returned a Target that has its protocol bound.
C4_Witness ==
    /\ lastConnect.outcome = "returned"
    /\ \E e \in protocolMap :
          e[1].url = lastConnect.url /\ protocolsConstructed[e[1].url] = 1

\* ----------------------------------------- claims on onRuntimeGetProperties
\* The list the hook reads from msg.result, when there is one.
ListOf(result) ==
    IF result.t = "array" THEN result.items
    ELSE IF result.t = "object" /\ result.properties.t = "array"
         THEN result.properties.items
    ELSE <<>>

HasNullEntry(list) == \E i \in 1..Len(list) : list[i].t = "null"

IsKept(e) == Truthy(e.isOwn) \/ Truthy(e.nativeGetter)

\* The entries with a truthy isOwn or nativeGetter, in order, isOwn true.
KeptEntries(list) ==
    LET kept == SelectSeq(list, IsKept)
    IN [i \in 1..Len(kept) |-> [kept[i] EXCEPT !.isOwn = "true"]]

Filtered(msg) ==
    Resolved([msg EXCEPT !.result =
                Object(UndefinedLeaf, Leaf("array", KeptEntries(ListOf(msg.result))))])

CarriesPropertiesList(msg) ==
    msg.result.t = "object" /\ msg.result.properties.t = "array"

\* C6 as stated: for every result with a list under properties, the hook
\* answers the envelope with result { result: L }, L the kept entries.
C6_FiltersEveryPropertiesList ==
    (hOut # Pending /\ CarriesPropertiesList(hMsg)) => hOut = Filtered(hMsg)

\* C6 as amended: the same, for a list under properties none of whose
\* entries is null.
C6_FiltersPropertiesListOfObjects ==
    (hOut # Pending /\ CarriesPropertiesList(hMsg)
        /\ ~HasNullEntry(hMsg.result.properties.items))
       => hOut = Filtered(hMsg)

\* A list under properties with a kept native-getter entry whose isOwn was
\* not true, followed by a dropped one.
C6_Witness ==
    /\ hOut # Pending /\ CarriesPropertiesList(hMsg)
    /\ LET list == hMsg.result.properties.items
       IN /\ Len(list) = 2
          /\ list[1].t = "object" /\ list[1].isOwn = "false"
          /\ list[1].nativeGetter = "true"
          /\ list[2].t = "object" /\ ~IsKept(list[2])
    /\ Len(hOut.value.result.result.items) = 1

\* C7: a list given as the bare result and the same list given under
\* properties get the same answer.
C7_BothShapesFilteredAlike ==
    (hOut # Pending /\ (hMsg.result.t = "array" \/ CarriesPropertiesList(hMsg)))
       => /\ hOut = onRuntimeGetProperties(
                        Envelope(hMsg.id, BareArray(ListOf(hMsg.result))))
          /\ hOut = onRuntimeGetProperties(
                        Envelope(hMsg.id, WithProperties(ListOf(hMsg.result))))

\* A bare array with a kept entry has been filtered.
C7_Witness ==
    /\ hOut # Pending /\ hMsg.result.t = "array"
    /\ hOut.value.hasId
    /\ Len(hOut.value.result.result.items) >= 1

\* The inputs on which the try block throws: a result that cannot be
\* destructured, or a null entry in the list.
Malformed(msg) ==
    msg.result.t \in {"undefined", "null"} \/ HasNullEntry(ListOf(msg.result))

\* C8: the hook always answers, with a resolved promise; its value is the
\* empty envelope exactly on the inputs on which the try block throws, and
\* the envelope of the frame otherwise, whatever the frame before was.
C8_AlwaysResolves ==
    /\ hOut = Pending => ENABLED Deliver
    /\ hOut # Pending
          => /\ hOut.settled = "resolved"
             /\ Malformed(hMsg) => hOut.value = EmptyEnvelope
             /\ ~Malformed(hMsg) => hOut.value.hasId /\ hOut.value.id = hMsg.id

\* A frame with a null entry has been answered with the empty envelope.
C8_Witness ==
    /\ hOut = Resolved(EmptyEnvelope)
    /\ HasNullEntry(ListOf(hMsg.result))

\* ------------------------------------------------ claims on getProtocolFor
IsNumeral(s) == s # Undefined /\ Len(s) > 0 /\ \A i \in 1..Len(s) : IsDigit(s[i])

NumeralValue(s) == DigitsFrom(s, 1, 0)

\* The k-th component of MAJOR.MINOR[.PATCH], undefined when there is none.
Component(version, k) ==
    IF version = Undefined THEN Undefined ELSE At(Split(version, "."), k - 1)

MajorOf(version) == Component(version, 1)

MinorOf(version) == Component(version, 2)

\* C9: a version whose MAJOR is at most 8 resolves to the v8 adapter,
\* whatever follows MAJOR and for a device as for the simulator.
C9_MajorUpTo8IsV8 ==
    (rProtocol # "none" /\ IsNumeral(MajorOf(rVersion))
        /\ NumeralValue(MajorOf(rVersion)) <= 8)
       => rProtocol = "IOS8Protocol"

\* MAJOR 8 with a MINOR that is no number, on the simulator.
C9_Witness ==
    /\ rProtocol = "IOS8Protocol" /\ rDeviceId = SIMULATOR
    /\ rVersion = <<"8", ".", "a">>

\* C10: MAJOR above 13, or MAJOR 13 with MINOR at least 4, resolves to the
\* v13 adapter for a device as for the simulator; MAJOR 13 with MINOR below 4
\* does not.
C10_V13FromThirteenFour ==
    (rProtocol # "none" /\ IsNumeral(MajorOf(rVersion)))
       => LET major == NumeralValue(MajorOf(rVersion))
              minor == MinorOf(rVersion)
          IN /\ major > 13 => rProtocol = "IOS13Protocol"
             /\ (major = 13 /\ IsNumeral(minor) /\ NumeralValue(minor) >= 4)
                   => rProtocol = "IOS13Protocol"
             /\ (major = 13 /\ IsNumeral(minor) /\ NumeralValue(minor) < 4)
                   => rProtocol # "IOS13Protocol"

\* 13.4 on the simulator.
C10_Witness ==
    /\ rProtocol = "IOS13Protocol" /\ rDeviceId = SIMULATOR
    /\ rVersion = <<"1", "3", ".", "4">>

\* MAJOR.MINOR or MAJOR.MINOR.PATCH, each a number.
WellFormed(version) ==
    /\ version # Undefined
    /\ LET parts == Split(version, ".")
       IN Len(parts) \in {2, 3} /\ \A k \in 1..Len(parts) : IsNumeral(parts[k])

IsTwelveTwo(version) ==
    /\ IsNumeral(MajorOf(version)) /\ NumeralValue(MajorOf(version)) = 12
    /\ IsNumeral(MinorOf(version)) /\ NumeralValue(MinorOf(version)) = 2

\* C11: MAJOR 12 with MINOR 2, whatever the PATCH, resolves to the v12
\* adapter on a physical device and to the v9 adapter on the simulator; no
\* other version MAJOR.MINOR[.PATCH], and nothing on the simulator, resolves
\* to the v12 adapter.
C11_V12OnlyForTwelveTwoOnDevice ==
    rProtocol # "none"
       => /\ IsTwelveTwo(rVersion)
                => rProtocol = (IF rDeviceId = SIMULATOR THEN "IOS9Protocol"
                                ELSE "IOS12Protocol")
          /\ (rProtocol = "IOS12Protocol" /\ WellFormed(rVersion))
                => IsTwelveTwo(rVersion)
          /\ rProtocol = "IOS12Protocol" => rDeviceId # SIMULATOR

\* 12.2.1 on the simulator.
C11_Witness ==
    /\ rProtocol = "IOS9Protocol" /\ rDeviceId = SIMULATOR
    /\ rVersion = <<"1", "2", ".", "2", ".", "1">>

HasDigit(s) == \E i \in 1..Len(s) : IsDigit(s[i])

\* A MAJOR with no MINOR.
MajorAlone(version) == version # Undefined /\ IsNumeral(version)

\* Non-numeric text (the empty string too), or a MAJOR with no MINOR.
MalformedVersion(version) ==
    version # Undefined /\ (~HasDigit(version) \/ MajorAlone(version))

\* C12 as stated: every malformed version resolves to the v9 adapter.
C12_MalformedIsV9 ==
    (rProtocol # "none" /\ MalformedVersion(rVersion)) => rProtocol = "IOS9Protocol"

\* C12 as amended: no version string makes the resolver throw; text with no
\* digit, and a MAJOR from 9 to 13 with no MINOR, resolve to the v9
\* adapter; a MAJOR with no MINOR resolves to v8 when it is at most 8 and to
\* v13 when it is above 13.
C12_MalformedNeverRaises ==
    (rProtocol # "none" /\ rVersion # Undefined)
       => /\ rProtocol \in Protocols
          /\ ~HasDigit(rVersion) => rProtocol = "IOS9Protocol"
          /\ MajorAlone(rVersion)
                => rProtocol = (IF NumeralValue(rVersion) <= 8 THEN "IOS8Protocol"
                                ELSE IF NumeralValue(rVersion) > 13 THEN "IOS13Protocol"
                                ELSE "IOS9Protocol")

\* "13", a MAJOR with no MINOR, has resolved to the v9 adapter.
C12_Witness ==
    /\ rProtocol = "IOS9Protocol" /\ rVersion = <<"1", "3">>

\* The url has a port part after a ':'.
HasPort(url) == url # Undefined /\ Len(Split(url, ":")) > 1

\* The records call p passed on are the first n of the device list, in
\* order, each with a version set and nothing else changed.
ReturnsFirst(p, n) ==
    /\ Len(calls[p].devices) = n
    /\ n <= Len(deviceList)
    /\ \A k \in 1..n :
          [calls[p].devices[k] EXCEPT !.version = Undefined] = deviceList[k]

\* C13: a getTargets call only ever waits or has returned (it has no
\* rejected outcome); a call that has returned after a failure at
\* record i (i = 0: the request or the parse of its body failed) passed on
\* exactly the records before i, and the Adapters created for them are
\* registered.
C13_DiscoveryFailureIsContained ==
    \A p \in 1..NumCalls :
       /\ calls[p].pc \in {"idle", "got", "exec", "resume", "done"}
       /\ calls[p].pc = "done"
             => /\ ReturnsFirst(p, IF calls[p].i = 0 THEN 0 ELSE calls[p].i - 1)
                /\ \A k \in 1..Len(calls[p].devices) :
                      HasPort(calls[p].devices[k].url)
                         => Has(adapters, AdapterId(calls[p].devices[k].deviceId))

\* A call has returned after a throw at the second record, with the first
\* record passed on and its Adapter registered.
C13_Witness ==
    \E p \in 1..NumCalls :
       /\ calls[p].pc = "done"
       /\ calls[p].i = 2 /\ Len(deviceList) = 2
       /\ Len(calls[p].devices) = 1
       /\ Has(adapters, AdapterId(calls[p].devices[1].deviceId))

\* The versions a simulator can resolve to: a runtime's, or the default.
SimulatorVersions == {Runtime134.version, DefaultVersion}

\* C14: every record a getTargets call passes on carries a version string:
\* a physical device's is the OS version it reported, or "9.3.0" when it
\* reported none; the simulator's is a resolved runtime version, or "9.3.0"
\* when none could be resolved.
C14_EveryRecordHasVersion ==
    \A p \in 1..NumCalls : \A k \in 1..Len(calls[p].devices) :
       LET d == calls[p].devices[k]
       IN /\ d.version # Undefined
          /\ d.deviceId # SIMULATOR
                => d.version = (IF d.deviceOSVersion # Undefined
                                THEN d.deviceOSVersion ELSE DefaultVersion)
          /\ d.deviceId = SIMULATOR => d.version \in SimulatorVersions

\* The protocols bound to the Target of url d.
BoundTo(pmap, d) == {e[2] : e \in {b \in pmap : b[1].url = d}}

\* C15: a Target's flag is unset until a protocol is constructed for it;
\* constructing the v13 protocol leaves it false, constructing an older one
\* leaves it true; and once set no step (a frame through the hook, a
\* connectTo again, a close, a discovery step) changes it.
C15_FlagSetOnceAtConstruction ==
    [][\A d \in DeviceIds :
          /\ targetBased[d] # "unset" => targetBased'[d] = targetBased[d]
          /\ BoundTo(protocolMap', d) = {} => targetBased'[d] = "unset"
          /\ \A protocol \in BoundTo(protocolMap', d) :
                targetBased'[d] = (IF protocol = "IOS13Protocol" THEN "false"
                                   ELSE "true")]_vars

\* The simulator's Target has the v13 protocol and the device's an older
\* one; a frame has gone through the hook and a client has connected again
\* after a close.
C15_Witness ==
    /\ targetBased[SIMULATOR] = "false" /\ targetBased[IPHONE] = "true"
    /\ BoundTo(protocolMap, SIMULATOR) = {"IOS13Protocol"}
    /\ hOut.settled = "resolved"
    /\ lastReconnect /\ lastConnect.outcome = "returned"

\* C16: when a client connects again to a Target whose connection was
\* closed and which had a protocol bound, connectTo constructs a protocol
\* anew for it.
C16_ReResolvedOnReconnect ==
    [][\A url \in DeviceIds :
          (/\ connectionState[url] = "closed"
           /\ connectionState'[url] = "connected"
           /\ BoundTo(protocolMap, url) # {})
             => protocolsConstructed'[url] = protocolsConstructed[url] + 1]_vars

\* C17: when an Adapter the collection has registered emits 'socketClosed'
\* with an id, the collection emits 'socketClosed' once, with that id,
\* however many getTargets calls have run, and neither starts nor
\* constructs an Adapter nor changes the registry.
C17_ClosureForwardedOnce ==
    [][\A a \in AdapterIds, id \in ClosedIds :
          UpstreamCloses(a, id)
             => /\ lastEmit' = [upstream |-> id, id |-> id, times |-> 1]
                /\ UNCHANGED <<adapters, constructed, started>>]_vars

\* Two getTargets calls have run over the list and a closure of a
\* registered Adapter has been forwarded.
C17_Witness ==
    /\ NumCalls >= 2
    /\ CompletedOverList(1) /\ CompletedOverList(2)
    /\ lastEmit.times = 1
    /\ Has(adapters, lastEmit.id)

\* The envelope out is the envelope in with nothing but result changed.
OnlyResultDiffers(in, out) == out = [in EXCEPT !.result = out.result]

\* C18 as stated: the envelope the hook returns is the one it received with
\* only result changed.
C18_OnlyResultChanges ==
    hOut # Pending => OnlyResultDiffers(hMsg, hOut.value)

\* C18 as amended: when the rewrite does not fail the envelope returned is
\* the one received with only result changed; when it fails the envelope
\* returned is {}, which has neither the id nor a result.
C18_OnlyResultChangesUnlessFailed ==
    hOut # Pending
       => /\ ~Malformed(hMsg) => OnlyResultDiffers(hMsg, hOut.value)
          /\ Malformed(hMsg) => hOut.value = EmptyEnvelope

\* A frame with id 2 came back with its id and another result.
C18_Witness ==
    /\ hOut.settled = "resolved" /\ ~Malformed(hMsg)
    /\ hMsg.id = 2 /\ hOut.value.hasId /\ hOut.value.id = 2
    /\ hOut.value.result # hMsg.result

\* C19: every record a returned getTargets call passed on has an Adapter
\* registered under the collection's id and the record's device id.
C19_EveryListedRecordHasAdapter ==
    \A p \in 1..NumCalls :
       calls[p].pc = "done"
          => \A k \in 1..Len(calls[p].devices) :
                Has(adapters, AdapterId(calls[p].devices[k].deviceId))

\* C20: connectTo never fails other than with "Target not found"; on a
\* Target a getTargets call has listed it returns with one of the four
\* protocols bound to the Target.
C20_ConnectToListedNeverFails ==
    /\ lastConnect.outcome \in {"none", "returned", "Target not found"}
    /\ (lastConnect.outcome = "returned")
          => /\ BoundTo(protocolMap, lastConnect.url) # {}
             /\ BoundTo(protocolMap, lastConnect.url) \subseteq Protocols

====
